---- MODULE Spec2Model ----
(***************************************************************************)
(* Scene-graph facade of model-viewer: the Material and TextureInfo        *)
(* facades, the source document (glTF material) they persist into and the  *)
(* correlated renderer (three.js) materials and textures they fan out to.  *)
(*                                                                         *)
(* Numbers that are fractions in the source are kept in tenths:           *)
(* alphaTest -0.5 is -5, the default alphaCutoff 0.5 is 5.                 *)
(***************************************************************************)
EXTENDS Integers, Sequences, FiniteSets, TLC

\* ------------------------------------------------------------------ bounds
\* Largest size of a correlated-object set.
MaxObjs == 3
\* Number of textures (facade Texture and the renderer texture behind it).
MaxTextures == 2
\* Largest size of the correlated set a Material is constructed over.
MaxCtorObjs == 2
\* Largest number of facade elements alive in a session.
MaxElements == 2
\* Largest number of hotspots in the store.
MaxHotspots == 2
\* Largest value of nextHotspotId at which a name is still generated.
MaxHotspotId == 3
\* Largest number of textures the editor adds to the edits.
MaxAddedTextures == 1
\* Largest number of updateGltf runs in flight.
MaxRuns == 3

\* --------------------------------------------------------------- constants
\* material.alphaTest = -0.5 (in tenths).
MinAlphaTest == -5
\* this.alphaCutoff !== undefined ? this.alphaCutoff : 0.5 (in tenths).
DefaultAlphaCutoff == 5
\* normalTexture = {index: -1}: the index of "no texture".
NoTextureIndex == -1

\* JavaScript undefined / null of an optional value; Some(v) is a present one.
Undefined == << >>
Null == << >>
Some(v) == << v >>

\* RGB triples a caller passes to setEmissiveFactor (tenths per channel).
Black == <<0, 0, 0>>
RGBValues == {Black, <<10, 5, 0>>}
\* alphaCutoff values a caller passes to setAlphaCutoff (tenths).
CutoffValues == {0, 3}
AlphaModes == {"OPAQUE", "MASK", "BLEND"}
\* enum TextureUsage
TextureUsage == {"Base", "Metallic", "Normal", "Occlusion", "Emissive"}
Textures == 1 .. MaxTextures

VARIABLES
    sourceObject,       \* this[$sourceObject]: the glTF material of the document
    correlatedObjects,  \* this[$correlatedObjects]: [null, set], set in iteration order
    usage,              \* TextureInfo[$usage]
    materialsNull,      \* TextureInfo[$materials] is null (else it is the correlated set)
    texture,            \* TextureInfo[$texture]: Null or Some(texture)
    threeTextures,      \* the renderer texture behind each Texture: [encoding]
    onUpdateLog,        \* what each invocation of the update callback of the last call saw
    threw,              \* the last call ended by throwing (a TypeError)
    lastCall,           \* the last setter called and its argument
    pre,                \* what could be read just before the last call
    explicitCutoff,     \* the last cutoff set in the loaded document or by setAlphaCutoff
    nextId,             \* the counter behind getLocallyUniqueId
    elements,           \* the facade elements alive, in the order they were adopted
    built,              \* the Material constructed last: what was given and what came out
    hotspots,           \* editor: the hotspots array of the store
    hotspotNameSet,     \* editor: the module-level set of registered hotspot names
    nextHotspotId,      \* editor: the module-level counter of generated names
    hotspotLast,        \* editor: the last hotspot action, its outcome, the state before it
    edits,              \* editor: the edits state of the store (materials, texturesById)
    nextTextureId,      \* editor: the counter behind generateTextureId
    editsLast,          \* editor: the last material-edit dispatch function called, its outcome
    runs,               \* preview: the updateGltf runs awaiting applyEdits, in start order
    gltfApplied,        \* preview: the edits the gltf model reflects
    mobilePc,           \* mobile view: where the fetch loop stands
    updateJson,         \* mobile view: the update flags of the current iteration
    mobileConfig,       \* mobile view: the config of the store (this.config)
    started,            \* mobile view: the follow-ups started in the current iteration
    pending,            \* mobile view: the resource fetches not yet resolved
    stateLast           \* mobile view: the last waitForState call and its outcome

facadeVars == <<sourceObject, correlatedObjects, usage, materialsNull, texture,
                threeTextures, onUpdateLog, threw, lastCall, pre, explicitCutoff>>

registryVars == <<nextId, elements, built>>

vars == <<sourceObject, correlatedObjects, usage, materialsNull, texture,
          threeTextures, onUpdateLog, threw, lastCall, pre, explicitCutoff,
          nextId, elements, built,
          hotspots, hotspotNameSet, nextHotspotId, hotspotLast,
          edits, nextTextureId, editsLast,
          runs, gltfApplied,
          mobilePc, updateJson, mobileConfig, started, pending, stateLast>>

hotspotVars == <<hotspots, hotspotNameSet, nextHotspotId, hotspotLast>>

editsVars == <<edits, nextTextureId, editsLast>>

previewVars == <<runs, gltfApplied>>

mobileVars == <<mobilePc, updateJson, mobileConfig, started, pending, stateLast>>

editorVars == <<hotspotVars, editsVars, previewVars, mobileVars>>

\* The hotspot module as loaded: let nextHotspotId = 1, an empty name set, the
\* reducer's default state.
NoHotspotAction == [op |-> "none"]

HotspotsIdle ==
    /\ hotspots = << >>
    /\ hotspotNameSet = {}
    /\ nextHotspotId = 1
    /\ hotspotLast = NoHotspotAction

\* INITIAL_GLTF_EDITS: no material, no texture.
NoEditsCall == [op |-> "none"]

EditsIdle ==
    /\ edits = [materials |-> << >>, texturesById |-> {}]
    /\ nextTextureId = 1
    /\ editsLast = NoEditsCall

\* No gltf loaded, no updateGltf run started.
PreviewIdle ==
    /\ runs = << >>
    /\ gltfApplied = Undefined

\* The update flags before any update was fetched.
NoUpdate ==
    [gltfChanged |-> FALSE, stateChanged |-> FALSE, envChanged |-> FALSE,
     posterChanged |-> FALSE]

NoStateCall == [called |-> FALSE]

\* config: ModelViewerConfig = {}
EmptyConfig == [environmentImage |-> Undefined, poster |-> Undefined, src |-> Undefined]

\* The mobile view before firstUpdated.
MobileIdle ==
    /\ mobilePc = "idle"
    /\ updateJson = NoUpdate
    /\ mobileConfig = EmptyConfig
    /\ started = << >>
    /\ pending = {}
    /\ stateLast = NoStateCall

\* The editor as loaded.
EditorIdle == HotspotsIdle /\ EditsIdle /\ PreviewIdle /\ MobileIdle

\* ------------------------------------------------------------ machine state
\* The mutable state a setter works on, threaded through the handlers.
Machine ==
    [sourceObject |-> sourceObject, correlatedObjects |-> correlatedObjects,
     usage |-> usage, materialsNull |-> materialsNull, texture |-> texture,
     threeTextures |-> threeTextures, onUpdateLog |-> << >>, threw |-> FALSE]

\* What an observer running inside the update callback can read.
Snapshot(m) ==
    [sourceObject |-> m.sourceObject, set |-> m.correlatedObjects.set,
     texture |-> m.texture, threeTextures |-> m.threeTextures]

\* this[$onUpdate]() / this.onUpdate()
onUpdate(m) == [m EXCEPT !.onUpdateLog = Append(@, Snapshot(m))]

\* for (const material of null) raises a TypeError: the handler stops there.
Throw(m) == [m EXCEPT !.threw = TRUE]

\* JavaScript truthiness of a number.
Truthy(n) == n # 0

\* ------------------------------------------------------------ Material
\* get emissiveFactor / alphaCutoff / alphaMode / doubleSided
emissiveFactor(m) == m.sourceObject.emissiveFactor
alphaCutoff(m) == m.sourceObject.alphaCutoff
alphaMode(m) == m.sourceObject.alphaMode
doubleSided(m) == m.sourceObject.doubleSided

\* setEmissiveFactor without the write to the source document.
setEmissiveFactor_NoPersist(m, rgb) ==
    IF m.correlatedObjects.null THEN Throw(m)
    ELSE onUpdate([m EXCEPT !.correlatedObjects.set =
                     [i \in DOMAIN @ |-> [@[i] EXCEPT !.emissive = rgb]]])

setEmissiveFactor(m, rgb) ==
    IF m.correlatedObjects.null THEN Throw(m)
    ELSE onUpdate([m EXCEPT !.correlatedObjects.set =
                                [i \in DOMAIN @ |-> [@[i] EXCEPT !.emissive = rgb]],
                            !.sourceObject.emissiveFactor = Some(rgb)])

\* The loop body of setAlphaCutoff without the branch for opaque materials.
alphaCutoffBody_NoOpaqueHack(material, mode, value) ==
    IF mode = "MASK" THEN [material EXCEPT !.alphaTest = value] ELSE material

\* One pass of the loop body of setAlphaCutoff over one renderer material.
alphaCutoffBody(material, mode, value) ==
    IF ~Truthy(material.alphaTest) /\ ~material.transparent
    THEN [material EXCEPT !.alphaTest = MinAlphaTest]
    ELSE IF mode = "MASK"
    THEN [material EXCEPT !.alphaTest = value]
    ELSE material

setAlphaCutoff(m, value) ==
    IF m.correlatedObjects.null THEN Throw(m)
    ELSE onUpdate([m EXCEPT !.correlatedObjects.set =
                                [i \in DOMAIN @ |-> alphaCutoffBody(@[i], alphaMode(m), value)],
                            !.sourceObject.alphaCutoff = Some(value)])

\* The BLEND branch without material.depthWrite = false.
blendBranch_KeepsDepthWrite(m, i) ==
    onUpdate([m EXCEPT !.correlatedObjects.set[i].transparent = TRUE])

\* if (alphaMode === 'BLEND') { ... }, on the i-th renderer material.
blendBranch(m, i) ==
    onUpdate([m EXCEPT !.correlatedObjects.set[i].transparent = TRUE,
                       !.correlatedObjects.set[i].depthWrite = FALSE])

\* The OPAQUE branch without material.transparent = false.
opaqueBranch_KeepsTransparent(m, i) ==
    onUpdate([m EXCEPT !.correlatedObjects.set[i].depthWrite = TRUE])

\* if (alphaMode === 'OPAQUE') { ... }, on the i-th renderer material.
opaqueBranch(m, i) ==
    onUpdate([m EXCEPT !.correlatedObjects.set[i].transparent = FALSE,
                       !.correlatedObjects.set[i].depthWrite = TRUE])

\* The MASK branch with an update callback of its own after setAlphaCutoff.
maskBranch_ExtraUpdate(m, i) ==
    LET m1 == [m EXCEPT !.correlatedObjects.set[i].transparent = FALSE,
                        !.correlatedObjects.set[i].depthWrite = TRUE]
    IN onUpdate(setAlphaCutoff(m1, IF alphaCutoff(m1) # Undefined
                                   THEN alphaCutoff(m1)[1]
                                   ELSE DefaultAlphaCutoff))

\* if (alphaMode === 'MASK') { ... }, on the i-th renderer material.
maskBranch(m, i) ==
    LET m1 == [m EXCEPT !.correlatedObjects.set[i].transparent = FALSE,
                        !.correlatedObjects.set[i].depthWrite = TRUE]
    IN setAlphaCutoff(m1, IF alphaCutoff(m1) # Undefined
                          THEN alphaCutoff(m1)[1]
                          ELSE DefaultAlphaCutoff)

\* One pass of the loop body of setAlphaMode, over the i-th renderer material.
alphaModeBody(m, mode, i) ==
    CASE mode = "BLEND" -> blendBranch(m, i)
      [] mode = "OPAQUE" -> opaqueBranch(m, i)
      [] mode = "MASK" -> maskBranch(m, i)
      [] OTHER -> m

RECURSIVE alphaModeLoop(_, _, _)
alphaModeLoop(m, mode, i) ==
    IF i > Len(m.correlatedObjects.set) THEN m
    ELSE alphaModeLoop(alphaModeBody(m, mode, i), mode, i + 1)

setAlphaMode(m, mode) ==
    LET m1 == [m EXCEPT !.sourceObject.alphaMode = mode]
    IN IF m1.correlatedObjects.null THEN Throw(m1)
       ELSE alphaModeLoop(m1, mode, 1)

setDoubleSided(m, flag) ==
    IF m.correlatedObjects.null THEN Throw(m)
    ELSE onUpdate([m EXCEPT !.correlatedObjects.set =
                     [i \in DOMAIN @ |->
                        [@[i] EXCEPT !.side = IF flag = TRUE THEN "DoubleSide"
                                               ELSE "FrontSide"]]])

\* ------------------------------------------------------------ TextureInfo
\* texture.source[$sourceTexture]: the renderer texture behind a facade Texture.
sourceTexture(t) == t

LinearUsages == {"Metallic", "Normal", "Occlusion"}

\* switch (this[$usage]): the map property the usage selects is assigned.
assignMap(material, u, threeTexture) ==
    CASE u = "Base" -> [material EXCEPT !.map = threeTexture]
      [] u = "Metallic" -> [material EXCEPT !.metalnessMap = threeTexture]
      [] u = "Normal" -> [material EXCEPT !.normalMap = threeTexture]
      [] u = "Occlusion" -> [material EXCEPT !.aoMap = threeTexture]
      [] u = "Emissive" -> [material EXCEPT !.emissiveMap = threeTexture]
      [] OTHER -> material

\* The loop body with the assignment skipped when there is no texture.
setTextureBody_KeepsMapOnNull(material, u, threeTexture) ==
    [(IF threeTexture = Null THEN material ELSE assignMap(material, u, threeTexture))
        EXCEPT !.needsUpdate = TRUE]

\* The loop body of setTexture: the switch, then material.needsUpdate = true.
setTextureBody(material, u, threeTexture) ==
    [assignMap(material, u, threeTexture) EXCEPT !.needsUpdate = TRUE]

\* The local variable encoding after one pass of the loop body.
setTextureEncoding(u, encoding) ==
    IF u \in LinearUsages THEN "LinearEncoding" ELSE encoding

\* for (const material of this[$materials]): the set and the encoding after
\* the materials i .. Len(set) have been visited.
RECURSIVE setTextureLoop(_, _, _, _, _)
setTextureLoop(set, u, threeTexture, encoding, i) ==
    IF i > Len(set) THEN [set |-> set, encoding |-> encoding]
    ELSE setTextureLoop([set EXCEPT ![i] = setTextureBody(set[i], u, threeTexture)],
                        u, threeTexture, setTextureEncoding(u, encoding), i + 1)

\* setTexture with the update callback invoked before the encoding is stamped.
setTexture_UpdateBeforeEncoding(m, t) ==
    LET threeTexture == IF t # Null THEN Some(sourceTexture(t[1])) ELSE Null
        m1 == [m EXCEPT !.texture = t]
        looped == IF ~m1.materialsNull
                  THEN setTextureLoop(m1.correlatedObjects.set, m1.usage,
                                      threeTexture, "sRGBEncoding", 1)
                  ELSE [set |-> m1.correlatedObjects.set, encoding |-> "sRGBEncoding"]
        m2 == onUpdate([m1 EXCEPT !.correlatedObjects.set = looped.set])
    IN IF threeTexture # Null
       THEN [m2 EXCEPT !.threeTextures[threeTexture[1]].encoding = looped.encoding]
       ELSE m2

setTexture(m, t) ==
    LET threeTexture == IF t # Null THEN Some(sourceTexture(t[1])) ELSE Null
        m1 == [m EXCEPT !.texture = t]
        looped == IF ~m1.materialsNull
                  THEN setTextureLoop(m1.correlatedObjects.set, m1.usage,
                                      threeTexture, "sRGBEncoding", 1)
                  ELSE [set |-> m1.correlatedObjects.set, encoding |-> "sRGBEncoding"]
        m2 == [m1 EXCEPT !.correlatedObjects.set = looped.set]
        m3 == IF threeTexture # Null
              THEN [m2 EXCEPT !.threeTextures[threeTexture[1]].encoding = looped.encoding]
              ELSE m2
    IN onUpdate(m3)

\* ------------------------------------------------------------ initial states
\* A renderer material as the loader hands it to the facade.
ThreeMaterial(alphaTest, transparent, depthWrite, mp) ==
    [emissive |-> Black, alphaTest |-> alphaTest, transparent |-> transparent,
     depthWrite |-> depthWrite, side |-> "FrontSide",
     map |-> mp, metalnessMap |-> mp, normalMap |-> mp, aoMap |-> mp,
     emissiveMap |-> mp, needsUpdate |-> FALSE]

\* three.js default, opaque with the loader's alpha hack, cutout, blended.
InitialMaterials ==
    {ThreeMaterial(0, FALSE, TRUE, Null), ThreeMaterial(MinAlphaTest, FALSE, TRUE, Null),
     ThreeMaterial(DefaultAlphaCutoff, FALSE, TRUE, Null), ThreeMaterial(0, TRUE, FALSE, Null)}

SeqsUpTo(S, n) == UNION {[1 .. k -> S] : k \in 0 .. n}

NoCall == [op |-> "none", arg |-> "none"]

\* No Material has been constructed yet.
NoBuilt == [version |-> "none"]

\* The registry before any facade element is constructed.
RegistryIdle ==
    /\ nextId = 0
    /\ elements = << >>
    /\ built = NoBuilt

InitMaterial ==
    /\ \E null \in BOOLEAN :
         \E set \in (IF null THEN {<< >>} ELSE SeqsUpTo(InitialMaterials, MaxObjs)) :
            correlatedObjects = [null |-> null, set |-> set]
    /\ \E mode \in AlphaModes \cup {"undefined"}, cutoff \in {Undefined, Some(3)},
          ds \in {Undefined, Some(FALSE)},
          \* the constructor returns before defaulting emissiveFactor when the set is null
          ef \in (IF correlatedObjects.null THEN {Undefined, Some(Black)} ELSE {Some(Black)}) :
         /\ sourceObject = [emissiveFactor |-> ef, alphaCutoff |-> cutoff,
                            alphaMode |-> mode, doubleSided |-> ds]
         /\ explicitCutoff = cutoff
    /\ usage = "Base"
    /\ materialsNull = FALSE
    /\ texture = Null
    /\ threeTextures = [t \in Textures |-> [encoding |-> "sRGBEncoding"]]
    /\ onUpdateLog = << >>
    /\ threw = FALSE
    /\ lastCall = NoCall
    /\ pre = Snapshot(Machine)
    /\ RegistryIdle
    /\ EditorIdle

InitTextureInfo ==
    /\ \E n \in 0 .. MaxObjs, mp \in {Null} \cup {Some(t) : t \in Textures} :
         correlatedObjects =
            [null |-> FALSE, set |-> [i \in 1 .. n |-> ThreeMaterial(0, FALSE, TRUE, mp)]]
    /\ sourceObject = [emissiveFactor |-> Some(Black), alphaCutoff |-> Undefined,
                       alphaMode |-> "undefined", doubleSided |-> Undefined]
    /\ explicitCutoff = Undefined
    /\ usage \in TextureUsage
    /\ materialsNull \in BOOLEAN
    /\ texture \in {Null} \cup {Some(t) : t \in Textures}
    /\ threeTextures \in [Textures -> [encoding : {"sRGBEncoding", "LinearEncoding"}]]
    /\ onUpdateLog = << >>
    /\ threw = FALSE
    /\ lastCall = NoCall
    /\ pre = Snapshot(Machine)
    /\ RegistryIdle
    /\ EditorIdle

\* ------------------------------------------------------------------ actions
\* The state after a handler has run to its end (or to its throw).
Apply(m, op, arg) ==
    /\ sourceObject' = m.sourceObject
    /\ correlatedObjects' = m.correlatedObjects
    /\ texture' = m.texture
    /\ threeTextures' = m.threeTextures
    /\ onUpdateLog' = m.onUpdateLog
    /\ threw' = m.threw
    /\ lastCall' = [op |-> op, arg |-> arg]
    /\ pre' = Snapshot(Machine)
    /\ UNCHANGED <<usage, materialsNull>>
    /\ UNCHANGED registryVars
    /\ UNCHANGED editorVars

CallSetEmissiveFactor ==
    \E rgb \in RGBValues :
        /\ Apply(setEmissiveFactor(Machine, rgb), "setEmissiveFactor", rgb)
        /\ UNCHANGED explicitCutoff

CallSetAlphaCutoff ==
    \E value \in CutoffValues :
        LET m == setAlphaCutoff(Machine, value)
        IN /\ Apply(m, "setAlphaCutoff", value)
           /\ explicitCutoff' = IF m.threw THEN explicitCutoff ELSE Some(value)

CallSetAlphaMode ==
    \E mode \in AlphaModes :
        /\ Apply(setAlphaMode(Machine, mode), "setAlphaMode", mode)
        /\ UNCHANGED explicitCutoff

CallSetDoubleSided ==
    \E flag \in BOOLEAN :
        /\ Apply(setDoubleSided(Machine, flag), "setDoubleSided", flag)
        /\ UNCHANGED explicitCutoff

CallSetTexture ==
    \E t \in {Null} \cup {Some(x) : x \in Textures} :
        /\ Apply(setTexture(Machine, t), "setTexture", t)
        /\ UNCHANGED explicitCutoff

NextMaterial ==
    \/ CallSetEmissiveFactor
    \/ CallSetAlphaCutoff
    \/ CallSetAlphaMode
    \/ CallSetDoubleSided

NextTextureInfo == CallSetTexture

SpecMaterial == InitMaterial /\ [][NextMaterial]_vars

SpecTextureInfo == InitTextureInfo /\ [][NextTextureInfo]_vars

\* ------------------------------------------------------------ ThreeDOMElement
\* The registry of the session: the id counter and the elements adopted by the
\* graft.  An element is kept as its id, its class and the names of what it was
\* built over; the values behind the last Material's names are followed in built.
Registry == [nextId |-> nextId, elements |-> elements]

\* The name of a fragment of the source document.
Ref(name, k) == <<name, k>>

\* An optional correlated set: undefined, null or a set (kept in iteration order).
UndefinedSet == [tag |-> "undefined", set |-> << >>]
NullSet == [tag |-> "null", set |-> << >>]
SetOf(objs) == [tag |-> "set", set |-> objs]

\* correlatedMaterials == null: true of null and of undefined.
IsNullish_Strict(c) == c.tag = "null"
IsNullish(c) == c.tag \in {"undefined", "null"}

\* correlatedObjects: CorrelatedObjects|null = null: undefined becomes null.
DefaultToNull(c) == IF c.tag = "undefined" THEN NullSet ELSE c

\* A counter that hands out each number once.
getLocallyUniqueId(r) ==
    [value |-> r.nextId, registry |-> [r EXCEPT !.nextId = @ + 1]]

\* The graft keeps every element it adopts.
adopt(r, element) == [r EXCEPT !.elements = Append(@, element)]

\* new ThreeDOMElement(graft, element, correlatedObjects)
ThreeDOMElement(r, kind, element, correlated) ==
    LET fresh == getLocallyUniqueId(r)
        this == [id |-> fresh.value,
                 kind |-> kind,
                 sourceObject |-> element,
                 correlatedObjects |-> DefaultToNull(correlated)]
    IN adopt(fresh.registry, this)

\* The element constructed last.
Last(r) == r.elements[Len(r.elements)]

\* ------------------------------------------------------------------ Texture
\* textureInfo k stands for the TextureInfo over glTF texture k and renderer
\* texture k.
TextureOver(e, k) ==
    [e EXCEPT !.sourceObject = Ref("gltfTexture", k),
              !.correlatedObjects = SetOf(<<k>>),
              !.onUpdate = k,
              !.sampler = k,
              !.source = k]

\* new Texture(textureInfo)
Texture(r, k) ==
    LET r1 == ThreeDOMElement(r, "Texture", Ref("gltfTexture", k), SetOf(<<k>>))
        this == [id |-> Last(r1).id, kind |-> "Texture",
                 sourceObject |-> Last(r1).sourceObject,
                 correlatedObjects |-> Last(r1).correlatedObjects,
                 onUpdate |-> k, sampler |-> k, source |-> k]
    IN [r1 EXCEPT !.elements[Len(r1.elements)] = this]

applyNewTextureInfo_ReassignsId(e, k) == [TextureOver(e, k) EXCEPT !.id = @ + 1]
applyNewTextureInfo(e, k) == TextureOver(e, k)

\* ------------------------------------------------- Material: construction
\* {index: -1}
NoTextureEntry == Some([index |-> NoTextureIndex])

\* gltfMaterial.pbrMetallicRoughness = {}: a block with no key.
EmptyBlock == Some({})

\* What a constructor call leaves behind.
Outcome(version, id, given, correlated, r, doc, threwError, pbr, slots, console) ==
    [registry |-> r,
     built |-> [version |-> version,
                given |-> given,
                correlatedGiven |-> correlated,
                id |-> id,
                threw |-> threwError,
                sourceObject |-> doc,
                correlatedObjects |-> DefaultToNull(correlated),
                pbrMetallicRoughness |-> pbr,
                normalTexture |-> slots[1],
                occlusionTexture |-> slots[2],
                emissiveTexture |-> slots[3],
                console |-> console]]

NoSlots == <<Undefined, Undefined, Undefined>>

\* if (gltfMaterial.pbrMetallicRoughness == null) pbrMetallicRoughness = {}
synthesizePbr_Never(doc) == doc
synthesizePbr(doc) ==
    IF doc.pbrMetallicRoughness = Undefined
    THEN [doc EXCEPT !.pbrMetallicRoughness = EmptyBlock] ELSE doc

\* if (gltfMaterial.emissiveFactor == null) emissiveFactor = [0, 0, 0]
defaultEmissiveFactor(doc) ==
    IF doc.emissiveFactor = Undefined
    THEN [doc EXCEPT !.emissiveFactor = Some(Black)] ELSE doc

\* let {normalTexture, occlusionTexture, emissiveTexture} = gltfMaterial
SlotEntries(doc) == <<doc.normalTexture, doc.occlusionTexture, doc.emissiveTexture>>

\* const {normalMap, aoMap, emissiveMap} = material
SlotMaps(material) == <<material.normalMap, material.aoMap, material.emissiveMap>>

SlotUsages == <<"Normal", "Occlusion", "Emissive">>

\* new TextureInfo(onUpdate, gltf, materials, texture, usage, entry)
SlotTextureInfo(materials, tex, u, entry) ==
    Some([usage |-> u, texture |-> tex, materials |-> materials, sourceObject |-> entry])

\* The three sub-facades are facade elements too.
AdoptSlots(r) ==
    LET r1 == ThreeDOMElement(r, "TextureInfo", Ref("normalTexture", 0), SetOf(<< >>))
        r2 == ThreeDOMElement(r1, "TextureInfo", Ref("occlusionTexture", 0), SetOf(<< >>))
    IN ThreeDOMElement(r2, "TextureInfo", Ref("emissiveTexture", 0), SetOf(<< >>))

\* The names the Material element is registered under.
MaterialRef == Ref("gltfMaterial", 0)
NamedSet(c) == IF c.tag = "set" THEN SetOf(<<"correlatedMaterials">>) ELSE c

\* material.ts: the slot is decided on the first correlated object alone.
firstMapSlot(entry, firstMap) ==
    IF entry # Undefined /\ firstMap # Null
    THEN [texture |-> firstMap, entry |-> entry]
    ELSE [texture |-> Null, entry |-> NoTextureEntry]

SlotMessages ==
    <<"Normal map differs between homegenous materials",
      "AO map differs between homegenous materials",
      "Emissive map differs between homegenous materials">>

\* One pass of the verifying loop: the messages one object adds.
verifyObject(first, material) ==
    LET msg(k) == IF SlotMaps(material)[k] # SlotMaps(first)[k]
                  THEN <<SlotMessages[k]>> ELSE << >>
    IN msg(1) \o msg(2) \o msg(3)

RECURSIVE verifyLoop(_, _, _)
verifyLoop(set, i, console) ==
    IF i > Len(set) THEN console
    ELSE verifyLoop(set, i + 1, console \o verifyObject(set[1], set[i]))

\* material.ts: new Material(onUpdate, gltf, gltfMaterial, correlatedMaterials)
MaterialTs(r, gltfMaterial, correlatedMaterials) ==
    LET v == "material.ts"
        r1 == ThreeDOMElement(r, "Material", MaterialRef, NamedSet(correlatedMaterials))
    IN IF IsNullish(correlatedMaterials)
       THEN Outcome(v, Last(r1).id, gltfMaterial, correlatedMaterials, r1, gltfMaterial,
                    FALSE, FALSE, NoSlots, << >>)
       ELSE
       LET doc1 == synthesizePbr(gltfMaterial)
           r2 == ThreeDOMElement(r1, "PBRMetallicRoughness",
                                 Ref("pbrMetallicRoughness", 0),
                                 NamedSet(correlatedMaterials))
           doc2 == defaultEmissiveFactor(doc1)
           set == correlatedMaterials.set
       IN IF Len(set) = 0
          \* destructuring the first value of an empty set: TypeError
          THEN Outcome(v, Last(r1).id, gltfMaterial, correlatedMaterials, r2, doc2,
                       TRUE, TRUE, NoSlots, << >>)
          ELSE
          LET slot(k) == firstMapSlot(SlotEntries(doc2)[k], SlotMaps(set[1])[k])
              console == verifyLoop(set, 1, << >>)
              info(k) == SlotTextureInfo(correlatedMaterials, slot(k).texture,
                                         SlotUsages[k], slot(k).entry)
          IN Outcome(v, Last(r1).id, gltfMaterial, correlatedMaterials, AdoptSlots(r2), doc2,
                     FALSE, TRUE, <<info(1), info(2), info(3)>>, console)

\* part_000: a Set of textures, in insertion order.
add(set, x) == IF \E i \in 1 .. Len(set) : set[i] = x THEN set ELSE Append(set, x)

\* part_000: one pass of the loop for one slot.
collectMap(acc, map) ==
    IF acc.entry # Undefined /\ map # Null
    THEN [acc EXCEPT !.textures = add(@, map[1])]
    ELSE [acc EXCEPT !.entry = NoTextureEntry]

RECURSIVE collectLoop(_, _, _, _)
collectLoop(set, i, k, acc) ==
    IF i > Len(set) THEN acc
    ELSE collectLoop(set, i + 1, k, collectMap(acc, SlotMaps(set[i])[k]))

\* set.values().next().value
firstValue(set) == IF Len(set) = 0 THEN Undefined ELSE Some(set[1])

\* part_000: new Material(onUpdate, gltf, gltfMaterial, correlatedMaterials)
MaterialPart000(r, gltfMaterial, correlatedMaterials) ==
    LET v == "part_000"
        r1 == ThreeDOMElement(r, "Material", MaterialRef, NamedSet(correlatedMaterials))
    IN IF IsNullish(correlatedMaterials)
       THEN Outcome(v, Last(r1).id, gltfMaterial, correlatedMaterials, r1, gltfMaterial,
                    FALSE, FALSE, NoSlots, << >>)
       ELSE
       LET doc1 == synthesizePbr(gltfMaterial)
           r2 == ThreeDOMElement(r1, "PBRMetallicRoughness",
                                 Ref("pbrMetallicRoughness", 0),
                                 NamedSet(correlatedMaterials))
           doc2 == defaultEmissiveFactor(doc1)
           set == correlatedMaterials.set
           slot(k) == collectLoop(set, 1, k,
                                  [entry |-> SlotEntries(doc2)[k], textures |-> << >>])
           info(k) == SlotTextureInfo(firstValue(set), firstValue(slot(k).textures),
                                      SlotUsages[k], slot(k).entry)
       IN Outcome(v, Last(r1).id, gltfMaterial, correlatedMaterials, AdoptSlots(r2), doc2,
                  FALSE, TRUE, <<info(1), info(2), info(3)>>, << >>)

\* ----------------------------------------------- construction: inputs, actions
\* The source fragments a Material is constructed from.
DeclaredEntry == Some([index |-> 0])

Fragments ==
    [pbrMetallicRoughness : {Undefined, Some({"metallicFactor"})},
     emissiveFactor : {Undefined, Some(<<10, 5, 0>>)},
     normalTexture : {Undefined, DeclaredEntry},
     occlusionTexture : {Undefined, DeclaredEntry},
     emissiveTexture : {Undefined, DeclaredEntry}]

\* The normal, occlusion and emissive map of a renderer material.
MapChoices ==
    {<<Null, Null, Null>>, <<Some(1), Some(1), Some(1)>>,
     <<Some(2), Some(2), Some(2)>>, <<Some(1), Null, Some(2)>>}

CtorMaterial(maps) ==
    [ThreeMaterial(0, FALSE, TRUE, Null) EXCEPT
        !.normalMap = maps[1], !.aoMap = maps[2], !.emissiveMap = maps[3]]

CorrelatedArgs ==
    {UndefinedSet, NullSet} \cup
    {SetOf(objs) : objs \in SeqsUpTo({CtorMaterial(mp) : mp \in MapChoices}, MaxCtorObjs)}

Constructed(o) ==
    /\ nextId' = o.registry.nextId
    /\ elements' = o.registry.elements
    /\ built' = o.built
    /\ UNCHANGED facadeVars
    /\ UNCHANGED editorVars

ConstructMaterialTs ==
    /\ Len(elements) < MaxElements
    /\ \E gltfMaterial \in Fragments, correlatedMaterials \in CorrelatedArgs :
           Constructed(MaterialTs(Registry, gltfMaterial, correlatedMaterials))

ConstructMaterialPart000 ==
    /\ Len(elements) < MaxElements
    /\ \E gltfMaterial \in Fragments, correlatedMaterials \in CorrelatedArgs :
           Constructed(MaterialPart000(Registry, gltfMaterial, correlatedMaterials))

\* No facade is in use: the state of the facade variables while Materials are
\* constructed and while the editor runs.
FacadeIdle ==
    /\ sourceObject = [emissiveFactor |-> Undefined, alphaCutoff |-> Undefined,
                       alphaMode |-> "undefined", doubleSided |-> Undefined]
    /\ correlatedObjects = [null |-> TRUE, set |-> << >>]
    /\ explicitCutoff = Undefined
    /\ usage = "Base"
    /\ materialsNull = TRUE
    /\ texture = Null
    /\ threeTextures = [t \in Textures |-> [encoding |-> "sRGBEncoding"]]
    /\ onUpdateLog = << >>
    /\ threw = FALSE
    /\ lastCall = NoCall
    /\ pre = Snapshot(Machine)

InitConstruct == RegistryIdle /\ FacadeIdle /\ EditorIdle

NextConstruct == ConstructMaterialTs \/ ConstructMaterialPart000

SpecConstruct == InitConstruct /\ [][NextConstruct]_vars

\* ------------------------------------------------- elements of one session
\* A session with one Material, constructed over one renderer material, and
\* the Texture facades made and re-pointed while its setters are called.
SessionFragment ==
    [pbrMetallicRoughness |-> Undefined, emissiveFactor |-> Undefined,
     normalTexture |-> DeclaredEntry, occlusionTexture |-> Undefined,
     emissiveTexture |-> Undefined]

SessionMaterial ==
    MaterialPart000([nextId |-> 0, elements |-> << >>], SessionFragment,
                    SetOf(<<CtorMaterial(<<Some(1), Null, Null>>)>>))

TextureElements == {i \in 1 .. Len(elements) : elements[i].kind = "Texture"}

InitElements ==
    /\ nextId = SessionMaterial.registry.nextId
    /\ elements = SessionMaterial.registry.elements
    /\ built = SessionMaterial.built
    /\ correlatedObjects = [null |-> FALSE, set |-> built.correlatedGiven.set]
    /\ sourceObject = [emissiveFactor |-> built.sourceObject.emissiveFactor,
                       alphaCutoff |-> Undefined,
                       alphaMode |-> "undefined", doubleSided |-> Undefined]
    /\ explicitCutoff = Undefined
    /\ usage = "Normal"
    /\ materialsNull = FALSE
    /\ texture = Some(1)
    /\ threeTextures = [t \in Textures |-> [encoding |-> "LinearEncoding"]]
    /\ onUpdateLog = << >>
    /\ threw = FALSE
    /\ lastCall = NoCall
    /\ pre = Snapshot(Machine)
    /\ EditorIdle

\* new Texture(textureInfo): at most one Texture facade per texture.
ConstructTexture ==
    /\ Cardinality(TextureElements) < MaxTextures
    /\ \E k \in Textures :
           LET r == Texture(Registry, k)
           IN /\ nextId' = r.nextId
              /\ elements' = r.elements
              /\ lastCall' = [op |-> "Texture", arg |-> k]
    /\ UNCHANGED <<sourceObject, correlatedObjects, usage, materialsNull, texture,
                   threeTextures, onUpdateLog, threw, pre, explicitCutoff, built>>
    /\ UNCHANGED editorVars

\* texture.applyNewTextureInfo(textureInfo)
CallApplyNewTextureInfo ==
    /\ \E i \in TextureElements, k \in Textures :
           /\ elements' = [elements EXCEPT ![i] = applyNewTextureInfo(@, k)]
           /\ lastCall' = [op |-> "applyNewTextureInfo", arg |-> <<i, k>>]
    /\ UNCHANGED <<sourceObject, correlatedObjects, usage, materialsNull, texture,
                   threeTextures, onUpdateLog, threw, pre, explicitCutoff,
                   nextId, built>>
    /\ UNCHANGED editorVars

NextElements ==
    \/ ConstructTexture
    \/ CallApplyNewTextureInfo
    \/ CallSetEmissiveFactor
    \/ CallSetAlphaCutoff
    \/ CallSetAlphaMode
    \/ CallSetDoubleSided

SpecElements == InitElements /\ [][NextElements]_vars

\* ------------------------------------------- Material over a uniform set
\* The properties of a renderer material the Material setters write.
FanOutState(material) ==
    [emissive |-> material.emissive, transparent |-> material.transparent,
     depthWrite |-> material.depthWrite, alphaTest |-> material.alphaTest,
     side |-> material.side]

\* All correlated objects agree on what the setters write.
Uniform(set) ==
    \A i, j \in 1 .. Len(set) : FanOutState(set[i]) = FanOutState(set[j])

\* A Material whose correlated renderer objects are instances of one material.
InitUniform ==
    /\ InitMaterial
    /\ ~correlatedObjects.null
    /\ Uniform(correlatedObjects.set)

SpecUniform == InitUniform /\ [][NextMaterial]_vars

\* ------------------------------------------------- editor: hotspot reducer
\* The module-level state and the reducer's state, as one value.
HotspotState ==
    [hotspots |-> hotspots, hotspotNameSet |-> hotspotNameSet,
     nextHotspotId |-> nextHotspotId]

\* Number.prototype.toString, base 10.
Digits == <<"0", "1", "2", "3", "4", "5", "6", "7", "8", "9">>

RECURSIVE toString(_)
toString(n) ==
    IF n < 10 THEN Digits[n + 1]
    ELSE toString(n \div 10) \o Digits[(n % 10) + 1]

\* while (hotspotNameSet.has(name)) name = (nextHotspotId++).toString()
RECURSIVE whileNameTaken(_, _)
whileNameTaken(h, name) ==
    IF name \in h.hotspotNameSet
    THEN whileNameTaken([h EXCEPT !.nextHotspotId = @ + 1], toString(h.nextHotspotId))
    ELSE [name |-> name, state |-> h]

\* generateUniqueHotspotName without its loop.
generateUniqueHotspotName_FirstName(h) ==
    [name |-> toString(h.nextHotspotId), state |-> [h EXCEPT !.nextHotspotId = @ + 1]]

generateUniqueHotspotName(h) ==
    whileNameTaken([h EXCEPT !.nextHotspotId = @ + 1], toString(h.nextHotspotId))

\* The outcome of a reducer call: the new state, or the old one and a throw.
Returned(h) == [state |-> h, threw |-> FALSE]
Thrown(h) == [state |-> h, threw |-> TRUE]

\* hotspots.findIndex(...): the position of the first hotspot of that name, 0
\* for none (findHotspotIndex throws on it).
findHotspotIndex(hs, name) ==
    IF \E i \in 1 .. Len(hs) : hs[i].name = name
    THEN CHOOSE i \in 1 .. Len(hs) :
            /\ hs[i].name = name
            /\ \A j \in 1 .. (i - 1) : hs[j].name # name
    ELSE 0

\* immutableArrayUpdate(array, index, value): a copy with one element replaced.
immutableArrayUpdate(array, index, value) ==
    IF index \in DOMAIN array THEN [array EXCEPT ![index] = value] ELSE array

\* addHotspot without the duplicate check.
addHotspot_NoDuplicateCheck(h, config) ==
    Returned([h EXCEPT !.hotspotNameSet = @ \cup {config.name},
                       !.hotspots = Append(@, config)])

addHotspot(h, config) ==
    IF config.name \in h.hotspotNameSet THEN Thrown(h)
    ELSE Returned([h EXCEPT !.hotspotNameSet = @ \cup {config.name},
                            !.hotspots = Append(@, config)])

updateHotspot(h, config) ==
    LET index == findHotspotIndex(h.hotspots, config.name)
    IN IF index = 0 THEN Thrown(h)
       ELSE Returned([h EXCEPT !.hotspots = immutableArrayUpdate(@, index, config)])

\* removeHotspot without hotspotNameSet.delete(name).
removeHotspot_KeepsName(h, name) ==
    LET index == findHotspotIndex(h.hotspots, name)
    IN IF index = 0 THEN Thrown(h)
       ELSE Returned([h EXCEPT !.hotspots =
                         SubSeq(@, 1, index - 1) \o SubSeq(@, index + 1, Len(@))])

removeHotspot(h, name) ==
    LET index == findHotspotIndex(h.hotspots, name)
    IN IF index = 0 THEN Thrown(h)
       ELSE Returned([h EXCEPT !.hotspots =
                                  SubSeq(@, 1, index - 1) \o SubSeq(@, index + 1, Len(@)),
                               !.hotspotNameSet = @ \ {name}])

\* The action creators; two of them write the module-level state.
dispatchAddHotspot(h, config) ==
    [state |-> h, action |-> [type |-> "ADD_HOTSPOT", payload |-> config]]
dispatchUpdateHotspot(h, config) ==
    [state |-> h, action |-> [type |-> "UPDATE_HOTSPOT", payload |-> config]]
dispatchRemoveHotspot(h, name) ==
    [state |-> h, action |-> [type |-> "REMOVE_HOTSPOT", payload |-> name]]
dispatchClearHotspot(h) ==
    [state |-> [h EXCEPT !.hotspotNameSet = {}, !.nextHotspotId = 1],
     action |-> [type |-> "CLEAR_HOTSPOTS", payload |-> << >>]]
dispatchSetHotspots(h, list) ==
    [state |-> [h EXCEPT !.hotspotNameSet = {list[i].name : i \in 1 .. Len(list)},
                         !.nextHotspotId = 1],
     action |-> [type |-> "SET_HOTSPOTS", payload |-> list]]

hotspotsReducer(h, action) ==
    CASE action.type = "SET_HOTSPOTS" -> Returned([h EXCEPT !.hotspots = action.payload])
      [] action.type = "CLEAR_HOTSPOTS" -> Returned([h EXCEPT !.hotspots = action.payload])
      [] action.type = "REMOVE_HOTSPOT" -> removeHotspot(h, action.payload)
      [] action.type = "UPDATE_HOTSPOT" -> updateHotspot(h, action.payload)
      [] action.type = "ADD_HOTSPOT" -> addHotspot(h, action.payload)
      [] OTHER -> Returned(h)

\* reduxStore.dispatch(created): the action is created, then reduced.
storeDispatch(created) == hotspotsReducer(created.state, created.action)

\* The names and hotspots the editor passes in.
HotspotNames == {toString(n) : n \in 1 .. MaxHotspotId} \cup {"note"}
HotspotConfigs == [name : HotspotNames, position : {0, 1}]

\* Lists of hotspots with distinct names (a snippet as the editor saves it).
HotspotLists ==
    {list \in SeqsUpTo(HotspotConfigs, MaxHotspots) :
        \A i, j \in 1 .. Len(list) : list[i].name = list[j].name => i = j}

\* The state after a dispatch, with what was dispatched.
HotspotDispatched(op, arg, result) ==
    /\ hotspots' = result.state.hotspots
    /\ hotspotNameSet' = result.state.hotspotNameSet
    /\ nextHotspotId' = result.state.nextHotspotId
    /\ hotspotLast' = [op |-> op, arg |-> arg, threw |-> result.threw,
                       pre |-> HotspotState]
    /\ UNCHANGED facadeVars
    /\ UNCHANGED registryVars
    /\ UNCHANGED <<editsVars, previewVars, mobileVars>>

DispatchAddHotspot ==
    \E config \in HotspotConfigs :
        /\ Len(hotspots) < MaxHotspots \/ config.name \in hotspotNameSet
        /\ HotspotDispatched("ADD_HOTSPOT", config,
                             storeDispatch(dispatchAddHotspot(HotspotState, config)))

\* ModelViewerPreview.addHotspot: a click in add-hotspot mode.
ClickAddHotspot ==
    /\ Len(hotspots) < MaxHotspots
    /\ nextHotspotId <= MaxHotspotId
    /\ \E position \in {0, 1} :
           LET generated == generateUniqueHotspotName(HotspotState)
               config == [name |-> generated.name, position |-> position]
           IN HotspotDispatched("addHotspot", config,
                                storeDispatch(dispatchAddHotspot(generated.state, config)))

DispatchUpdateHotspot ==
    \E config \in HotspotConfigs :
        HotspotDispatched("UPDATE_HOTSPOT", config,
                          storeDispatch(dispatchUpdateHotspot(HotspotState, config)))

DispatchRemoveHotspot ==
    \E name \in HotspotNames :
        HotspotDispatched("REMOVE_HOTSPOT", name,
                          storeDispatch(dispatchRemoveHotspot(HotspotState, name)))

DispatchClearHotspot ==
    HotspotDispatched("CLEAR_HOTSPOTS", << >>,
                      storeDispatch(dispatchClearHotspot(HotspotState)))

DispatchSetHotspots ==
    \E list \in HotspotLists :
        HotspotDispatched("SET_HOTSPOTS", list,
                          storeDispatch(dispatchSetHotspots(HotspotState, list)))

InitHotspots == FacadeIdle /\ RegistryIdle /\ EditorIdle

NextHotspots ==
    \/ DispatchAddHotspot
    \/ ClickAddHotspot
    \/ DispatchUpdateHotspot
    \/ DispatchRemoveHotspot
    \/ DispatchClearHotspot
    \/ DispatchSetHotspots

SpecHotspots == InitHotspots /\ [][NextHotspots]_vars

\* --------------------------------------------------- editor: edits reducer
\* The edits state of the store and the texture id counter, as one value.
EditsState == [edits |-> edits, nextTextureId |-> nextTextureId]

\* A Map is kept as the set of its values; a texture's key is its id.
has(map, id) == \E t \in map : t.id = id

\* immutableMapUpdate(map, key, value): a copy with one entry put.
immutableMapUpdate(map, key, value) == {t \in map : t.id # key} \cup {value}

\* generateTextureId(): an id no texture has yet.
generateTextureId(e) ==
    [value |-> e.nextTextureId, state |-> [e EXCEPT !.nextTextureId = @ + 1]]

\* materials[id], with array indices counted from 0; undefined out of range.
materialAt(materials, id) ==
    IF id + 1 \in DOMAIN materials THEN Some(materials[id + 1]) ELSE Undefined

\* The bounds check with only its upper half.
outOfBounds_UpperOnly(materials, id) == id >= Len(materials)

\* if (id >= materials.length || id < 0) throw new Error(...)
outOfBounds(materials, id) == id >= Len(materials) \/ id < 0

\* {...material, [field]: value}
withField(material, field, value) ==
    IF material = Undefined THEN [f \in {field} |-> value]
    ELSE [material[1] EXCEPT ![field] = value]

\* The outcome of a dispatch function: it threw, or it dispatched one action.
EditThrown(e) == [state |-> e, threw |-> TRUE, dispatched |-> FALSE]

\* case X: return {...state, materials: action.payload}
\* case ADD_X: return {...state, texturesById: ..., materials: ...}
\* case SET_EDITS: return action.payload
editsReducer(state, action) ==
    IF action.type \in {"ADD_BASE_COLOR_TEXTURE", "ADD_METALLIC_ROUGHNESS_TEXTURE",
                        "ADD_NORMAL_TEXTURE", "ADD_EMISSIVE_TEXTURE",
                        "ADD_OCCLUSION_TEXTURE"}
    THEN [state EXCEPT !.texturesById = action.payload.texturesById,
                       !.materials = action.payload.materials]
    ELSE IF action.type = "SET_EDITS" THEN action.payload
    ELSE [state EXCEPT !.materials = action.payload]

\* reduxStore.dispatch(action)
EditDispatched(e, action) ==
    [state |-> [e EXCEPT !.edits = editsReducer(@, action)],
     threw |-> FALSE, dispatched |-> TRUE]

\* dispatchMaterialBaseColor, dispatchRoughnessFactor, dispatchMetallicFactor,
\* dispatchSetEmissiveFactor, dispatchDoubleSided, dispatchSetAlphaMode,
\* dispatchSetAlphaCutoff: the same function but for type and field.
dispatchMaterialField(e, d, id, value) ==
    LET materials == e.edits.materials
    IN IF outOfBounds(materials, id) THEN EditThrown(e)
       ELSE EditDispatched(e,
              [type |-> d.type,
               payload |-> immutableArrayUpdate(materials, id + 1,
                              withField(materialAt(materials, id), d.field, value))])

\* setMaterialTexture(name, args, updateMaterial)
setMaterialTexture(e, d, id, textureId) ==
    LET materials == e.edits.materials
    IN IF outOfBounds(materials, id) THEN EditThrown(e)
       ELSE IF textureId # Undefined /\ ~has(e.edits.texturesById, textureId[1])
       THEN EditThrown(e)
       ELSE EditDispatched(e,
              [type |-> d.type,
               payload |-> immutableArrayUpdate(materials, id + 1,
                              withField(materialAt(materials, id), d.field, textureId))])

\* addMaterialTexture with the new texture left out of texturesById.
addMaterialTexture_NoEntry(e, d, id, uri) ==
    LET materials == e.edits.materials
    IN IF outOfBounds(materials, id) THEN EditThrown(e)
       ELSE
       LET generated == generateTextureId(e)
           textureId == generated.value
       IN EditDispatched(generated.state,
              [type |-> d.type,
               payload |->
                 [texturesById |-> e.edits.texturesById,
                  materials |-> immutableArrayUpdate(materials, id + 1,
                       withField(materialAt(materials, id), d.field, Some(textureId)))]])

\* addMaterialTexture(name, args, updateMaterial)
addMaterialTexture(e, d, id, uri) ==
    LET materials == e.edits.materials
    IN IF outOfBounds(materials, id) THEN EditThrown(e)
       ELSE
       LET generated == generateTextureId(e)
           textureId == generated.value
           tex == [id |-> textureId, uri |-> uri]
       IN EditDispatched(generated.state,
              [type |-> d.type,
               payload |->
                 [texturesById |-> immutableMapUpdate(e.edits.texturesById, textureId, tex),
                  materials |-> immutableArrayUpdate(materials, id + 1,
                       withField(materialAt(materials, id), d.field, Some(textureId)))]])

\* The dispatch functions: name, action type, material field.
FieldDispatches ==
    {[fn |-> "dispatchMaterialBaseColor", type |-> "SET_MATERIAL_BASE_COLOR_FACTOR",
      field |-> "baseColorFactor"],
     [fn |-> "dispatchRoughnessFactor", type |-> "SET_MATERIAL_ROUGHNESS",
      field |-> "roughnessFactor"],
     [fn |-> "dispatchMetallicFactor", type |-> "SET_MATERIAL_METALLIC",
      field |-> "metallicFactor"],
     [fn |-> "dispatchSetEmissiveFactor", type |-> "SET_EMISSIVE_FACTOR",
      field |-> "emissiveFactor"],
     [fn |-> "dispatchDoubleSided", type |-> "SET_DOUBLESIDED", field |-> "doubleSided"],
     [fn |-> "dispatchSetAlphaMode", type |-> "SET_ALPHA_MODE", field |-> "alphaMode"],
     [fn |-> "dispatchSetAlphaCutoff", type |-> "SET_ALPHA_CUTOFF",
      field |-> "alphaCutoff"]}

SetTextureDispatches ==
    {[fn |-> "dispatchBaseColorTexture", type |-> "SET_BASE_COLOR_TEXTURE",
      field |-> "baseColorTextureId"],
     [fn |-> "dispatchMetallicRoughnessTexture", type |-> "SET_METALLIC_ROUGHNESS_TEXTURE",
      field |-> "metallicRoughnessTextureId"],
     [fn |-> "dispatchNormalTexture", type |-> "SET_NORMAL_TEXTURE",
      field |-> "normalTextureId"],
     [fn |-> "dispatchEmissiveTexture", type |-> "SET_EMISSIVE_TEXTURE",
      field |-> "emissiveTextureId"],
     [fn |-> "dispatchOcclusionTexture", type |-> "SET_OCCLUSION_TEXTURE",
      field |-> "occlusionTextureId"]}

AddTextureDispatches ==
    {[fn |-> "dispatchAddBaseColorTexture", type |-> "ADD_BASE_COLOR_TEXTURE",
      field |-> "baseColorTextureId"],
     [fn |-> "dispatchAddMetallicRoughnessTexture",
      type |-> "ADD_METALLIC_ROUGHNESS_TEXTURE", field |-> "metallicRoughnessTextureId"],
     [fn |-> "dispatchAddNormalTexture", type |-> "ADD_NORMAL_TEXTURE",
      field |-> "normalTextureId"],
     [fn |-> "dispatchAddEmissiveTexture", type |-> "ADD_EMISSIVE_TEXTURE",
      field |-> "emissiveTextureId"],
     [fn |-> "dispatchAddOcclusionTexture", type |-> "ADD_OCCLUSION_TEXTURE",
      field |-> "occlusionTextureId"]}

TextureFields == {d.field : d \in SetTextureDispatches}

\* The material the editor starts from: one texture, used as base color.
LoadedTexture == [id |-> 0, uri |-> "loaded.png"]

LoadedMaterial ==
    [baseColorFactor |-> 1, roughnessFactor |-> 1, metallicFactor |-> 1,
     emissiveFactor |-> 1, doubleSided |-> 1, alphaMode |-> 1, alphaCutoff |-> 1,
     baseColorTextureId |-> Some(0), metallicRoughnessTextureId |-> Undefined,
     normalTextureId |-> Undefined, emissiveTextureId |-> Undefined,
     occlusionTextureId |-> Undefined]

\* What the panels pass in: a material index, a factor, a texture id, a uri.
MaterialIds == {-1, 0, 1}
FieldValues == {1}
TextureIdArgs == {Undefined} \cup {Some(n) : n \in 0 .. (MaxAddedTextures + 1)}
Uris == {"added.png"}

\* The state after a dispatch function has returned or thrown.
EditsCalled(d, id, arg, result) ==
    /\ edits' = result.state.edits
    /\ nextTextureId' = result.state.nextTextureId
    /\ editsLast' = [op |-> d.fn, field |-> d.field, id |-> id, arg |-> arg,
                     threw |-> result.threw, dispatched |-> result.dispatched,
                     generated |-> nextTextureId]
    /\ UNCHANGED facadeVars
    /\ UNCHANGED registryVars
    /\ UNCHANGED <<hotspotVars, previewVars, mobileVars>>

DispatchMaterialField ==
    \E d \in FieldDispatches, id \in MaterialIds, value \in FieldValues :
        EditsCalled(d, id, value, dispatchMaterialField(EditsState, d, id, value))

DispatchSetTexture ==
    \E d \in SetTextureDispatches, id \in MaterialIds, textureId \in TextureIdArgs :
        EditsCalled(d, id, textureId, setMaterialTexture(EditsState, d, id, textureId))

DispatchAddTexture ==
    \E d \in AddTextureDispatches, id \in MaterialIds, uri \in Uris :
        /\ nextTextureId <= MaxAddedTextures \/ outOfBounds(edits.materials, id)
        /\ EditsCalled(d, id, uri, addMaterialTexture(EditsState, d, id, uri))

\* The edits of a loaded model: no material, or one.
InitEdits ==
    /\ FacadeIdle
    /\ RegistryIdle
    /\ HotspotsIdle
    /\ PreviewIdle
    /\ MobileIdle
    /\ \E materials \in {<< >>, <<LoadedMaterial>>} :
           edits = [materials |-> materials, texturesById |-> {LoadedTexture}]
    /\ nextTextureId = 1
    /\ editsLast = NoEditsCall

NextEdits == DispatchMaterialField \/ DispatchSetTexture \/ DispatchAddTexture

SpecEdits == InitEdits /\ [][NextEdits]_vars

\* ------------------------------------------- preview: ModelViewerPreview
\* The edits the panels produce: the loaded material with a base color factor.
EditsWith(k) ==
    [materials |-> <<[LoadedMaterial EXCEPT !.baseColorFactor = k]>>,
     texturesById |-> {LoadedTexture}]

EditsValues == {EditsWith(k) : k \in {1, 2, 3}}

\* updateGltf(gltfChanged, previousEdits) up to its await: the run that
\* applyEdits(gltf, this[$edits], previousEdits) is started with.
updateGltf(currentEdits, gltfChanged, previousEdits) ==
    [edits |-> currentEdits,
     previousEdits |-> IF gltfChanged THEN Undefined ELSE previousEdits]

\* updated(changedProperties): a run is started when the edits or the gltf
\* changed.
updated(rs, currentEdits, gltfChanged, previousEdits) ==
    IF previousEdits # Undefined \/ gltfChanged
    THEN Append(rs, updateGltf(currentEdits, gltfChanged, previousEdits))
    ELSE rs

\* applyEdits resolves: the gltf model reflects the edits it was called with.
applyEdits(run) == Some(run.edits)

RemoveAt(seq, i) == SubSeq(seq, 1, i - 1) \o SubSeq(seq, i + 1, Len(seq))

\* dispatchSetEdits(edits); stateChanged stores them, updated() follows.
DispatchSetEdits ==
    /\ Len(runs) < MaxRuns
    /\ \E payload \in EditsValues \ {edits} :
           /\ edits' = editsReducer(edits, [type |-> "SET_EDITS", payload |-> payload])
           /\ runs' = updated(runs, edits', FALSE, Some(edits))
    /\ UNCHANGED <<gltfApplied, nextTextureId, editsLast>>
    /\ UNCHANGED <<facadeVars, registryVars, hotspotVars, mobileVars>>

\* The await of one run's applyEdits ends; runs end in any order.
ApplyEditsResolves ==
    /\ \E i \in 1 .. Len(runs) :
           /\ gltfApplied' = applyEdits(runs[i])
           /\ runs' = RemoveAt(runs, i)
    /\ UNCHANGED <<editsVars, facadeVars, registryVars, hotspotVars, mobileVars>>

\* A gltf is loaded and its edits are applied.
InitPreview ==
    /\ FacadeIdle
    /\ RegistryIdle
    /\ HotspotsIdle
    /\ MobileIdle
    /\ edits \in EditsValues
    /\ nextTextureId = 1
    /\ editsLast = NoEditsCall
    /\ runs = << >>
    /\ gltfApplied = Some(edits)

NextPreview == DispatchSetEdits \/ ApplyEditsResolves

SpecPreview == InitPreview /\ [][NextPreview]_vars

\* -------------------------------------------------- mobile view: MobileView
\* The update notices the editor posts to the updates pipe.
UpdateJsons ==
    [gltfChanged : BOOLEAN, stateChanged : BOOLEAN, envChanged : BOOLEAN,
     posterChanged : BOOLEAN]

\* URLs: the editor's own object URLs inside a snippet, and the object URLs
\* the mobile view creates from the blobs it fetched.
EditorUrl == Some("editor")
BlobUrl == Some("blob")

\* The snippets the editor posts to the snippet pipe.
RemoteStates ==
    [config : [environmentImage : {Undefined, EditorUrl},
               poster : {Undefined, EditorUrl},
               src : {EditorUrl}],
     hotspots : {<< >>}]

\* The outcomes of fetch(this.snippetPipeUrl): a failure leaves
\* partialState = {}.
SnippetResponses ==
    {[ok |-> FALSE]} \cup {[ok |-> TRUE, state |-> st] : st \in RemoteStates}

\* fetchLoop's .catch((error) => console.error(...)): the iteration settles.
fetchLoopCatch_Rethrows(error) == "stopped"
fetchLoopCatch(error) == "settled"

\* dispatchSetConfig(config) and stateChanged: this.config is the dispatched
\* config.
dispatchSetConfig(config) == config

\* waitForState(envChanged, posterChanged), after its fetch settled.  With
\* partialState = {} every path ends in a TypeError before the first dispatch:
\* an assignment to a field of the undefined partialState.config, or
\* dispatchSetHotspots(undefined).
waitForState(config, envChanged, posterChanged, response) ==
    IF ~response.ok
    THEN [threw |-> TRUE, config |-> config, hotspots |-> << >>]
    ELSE LET partialState == response.state
             c0 == partialState.config
             c1 == IF envChanged
                   THEN [c0 EXCEPT !.environmentImage = Undefined]
                   ELSE IF config.environmentImage # Undefined
                        THEN [c0 EXCEPT !.environmentImage = config.environmentImage]
                        ELSE c0
             c2 == IF posterChanged
                   THEN [c1 EXCEPT !.environmentImage = Undefined]
                   ELSE IF config.poster # Undefined
                        THEN [c1 EXCEPT !.poster = config.poster]
                        ELSE c1
             c3 == IF config.src # Undefined
                   THEN [c2 EXCEPT !.src = config.src]
                   ELSE c2
         IN [threw |-> FALSE, config |-> c3, hotspots |-> partialState.hotspots]

MobileFrame == UNCHANGED <<facadeVars, registryVars, editsVars, previewVars>>

\* firstUpdated: triggerFetchLoop() starts the first iteration.
FirstUpdated ==
    /\ mobilePc = "idle"
    /\ mobilePc' = "fetch"
    /\ UNCHANGED <<updateJson, mobileConfig, started, pending, stateLast>>
    /\ UNCHANGED hotspotVars
    /\ MobileFrame

\* fetch(this.updatesPipeUrl) settles: rejected, unparsable, or a notice.
FetchUpdates ==
    /\ mobilePc = "fetch"
    /\ \/ /\ \E error \in {"fetch rejected", "json rejected"} :
                 mobilePc' = fetchLoopCatch(error)
          /\ updateJson' = NoUpdate
       \/ /\ \E json \in UpdateJsons : updateJson' = json
          /\ mobilePc' = "model"
    /\ started' = << >>
    /\ stateLast' = NoStateCall
    /\ UNCHANGED <<mobileConfig, pending>>
    /\ UNCHANGED hotspotVars
    /\ MobileFrame

\* waitForUpdates, first if: waitForModel starts its fetch and returns.
StepModel ==
    /\ mobilePc = "model"
    /\ started' = IF updateJson.gltfChanged THEN Append(started, "model") ELSE started
    /\ mobilePc' = "state"
    /\ UNCHANGED <<updateJson, mobileConfig, pending, stateLast>>
    /\ UNCHANGED hotspotVars
    /\ MobileFrame

\* waitForUpdates, second if: waitForState runs to its end or throws into
\* fetchLoop's catch.
StepState ==
    /\ mobilePc = "state"
    /\ IF updateJson.stateChanged
       THEN \E response \in SnippetResponses :
              LET r == waitForState(mobileConfig, updateJson.envChanged,
                                    updateJson.posterChanged, response)
                  h == storeDispatch(dispatchSetHotspots(HotspotState, r.hotspots))
              IN /\ started' = Append(started, "state")
                 /\ stateLast' = [called |-> TRUE,
                                  envChanged |-> updateJson.envChanged,
                                  posterChanged |-> updateJson.posterChanged,
                                  before |-> mobileConfig,
                                  threw |-> r.threw,
                                  dispatched |-> r.config]
                 /\ IF r.threw
                    THEN /\ mobilePc' = fetchLoopCatch("TypeError")
                         /\ UNCHANGED <<mobileConfig, hotspots, hotspotNameSet,
                                        nextHotspotId>>
                    ELSE /\ mobilePc' = "env"
                         /\ mobileConfig' = dispatchSetConfig(r.config)
                         /\ hotspots' = h.state.hotspots
                         /\ hotspotNameSet' = h.state.hotspotNameSet
                         /\ nextHotspotId' = h.state.nextHotspotId
       ELSE /\ mobilePc' = "env"
            /\ UNCHANGED <<started, stateLast, mobileConfig, hotspots,
                           hotspotNameSet, nextHotspotId>>
    /\ UNCHANGED <<updateJson, pending, hotspotLast>>
    /\ MobileFrame

\* waitForUpdates, third if: waitForEnv starts its fetch and returns.
StepEnv ==
    /\ mobilePc = "env"
    /\ IF updateJson.envChanged
       THEN /\ started' = Append(started, "env")
            /\ pending' = pending \cup {"env"}
       ELSE UNCHANGED <<started, pending>>
    /\ mobilePc' = "poster"
    /\ UNCHANGED <<updateJson, mobileConfig, stateLast>>
    /\ UNCHANGED hotspotVars
    /\ MobileFrame

\* waitForUpdates, fourth if and return true: fetchLoop's promise resolves.
StepPoster ==
    /\ mobilePc = "poster"
    /\ IF updateJson.posterChanged
       THEN /\ started' = Append(started, "poster")
            /\ pending' = pending \cup {"poster"}
       ELSE UNCHANGED <<started, pending>>
    /\ mobilePc' = "settled"
    /\ UNCHANGED <<updateJson, mobileConfig, stateLast>>
    /\ UNCHANGED hotspotVars
    /\ MobileFrame

\* waitForEnv's fetch settles: dispatchEnvrionmentImage(envUrl), or its own
\* catch.
EnvArrives ==
    /\ "env" \in pending
    /\ pending' = pending \ {"env"}
    /\ \E ok \in BOOLEAN :
           mobileConfig' = IF ok
                           THEN [mobileConfig EXCEPT !.environmentImage = BlobUrl]
                           ELSE mobileConfig
    /\ UNCHANGED <<mobilePc, updateJson, started, stateLast>>
    /\ UNCHANGED hotspotVars
    /\ MobileFrame

\* waitForPoster's fetch settles: dispatchSetPoster(posterUrl), or its own
\* catch.
PosterArrives ==
    /\ "poster" \in pending
    /\ pending' = pending \ {"poster"}
    /\ \E ok \in BOOLEAN :
           mobileConfig' = IF ok
                           THEN [mobileConfig EXCEPT !.poster = BlobUrl]
                           ELSE mobileConfig
    /\ UNCHANGED <<mobilePc, updateJson, started, stateLast>>
    /\ UNCHANGED hotspotVars
    /\ MobileFrame

\* triggerFetchLoop after await this.fetchLoop(): this.triggerFetchLoop().
Retrigger ==
    /\ mobilePc = "settled"
    /\ mobilePc' = "fetch"
    /\ UNCHANGED <<updateJson, mobileConfig, started, pending, stateLast>>
    /\ UNCHANGED hotspotVars
    /\ MobileFrame

InitMobile ==
    /\ FacadeIdle
    /\ RegistryIdle
    /\ HotspotsIdle
    /\ EditsIdle
    /\ PreviewIdle
    /\ MobileIdle

NextMobile ==
    \/ FirstUpdated
    \/ FetchUpdates
    \/ StepModel
    \/ StepState
    \/ StepEnv
    \/ StepPoster
    \/ EnvArrives
    \/ PosterArrives
    \/ Retrigger

SpecMobile == InitMobile /\ [][NextMobile]_vars

\* The continuation of triggerFetchLoop runs once the awaited fetchLoop
\* promise has resolved.
LiveMobile == SpecMobile /\ WF_vars(Retrigger)

\* ------------------------------------------------------------------ claims
Set == correlatedObjects.set
Objs == 1 .. Len(Set)

\* The last call was op(arg).
Called(op, arg) == lastCall.op = op /\ lastCall.arg = arg

\* The cutoff setAlphaMode('MASK') is to re-apply: the stored one, else 0.5.
StoredCutoff(src) ==
    IF src.alphaCutoff # Undefined THEN src.alphaCutoff[1] ELSE DefaultAlphaCutoff

\* The map property of a renderer material that a usage selects.
UsageMap(u) ==
    CASE u = "Base" -> "map"
      [] u = "Metallic" -> "metalnessMap"
      [] u = "Normal" -> "normalMap"
      [] u = "Occlusion" -> "aoMap"
      [] u = "Emissive" -> "emissiveMap"

MapProperties == {"map", "metalnessMap", "normalMap", "aoMap", "emissiveMap"}

\* C1: after setEmissiveFactor(c) on a Material with a non-null correlated set,
\* every correlated renderer object has emissive c and the emissiveFactor read
\* from the source document is c.
C1_EmissiveFanOut ==
    (lastCall.op = "setEmissiveFactor" /\ ~correlatedObjects.null) =>
        /\ ~threw
        /\ \A i \in Objs : Set[i].emissive = lastCall.arg
        /\ sourceObject.emissiveFactor = Some(lastCall.arg)

\* C1 witness: a non-black colour has been fanned out to two or more objects
\* that were black before.
C1_Witness ==
    /\ lastCall.op = "setEmissiveFactor"
    /\ lastCall.arg # Black
    /\ Len(Set) >= 2
    /\ \A i \in Objs : pre.set[i].emissive = Black /\ Set[i].emissive = lastCall.arg
    /\ sourceObject.emissiveFactor = Some(lastCall.arg)

\* C2: after setAlphaMode('MASK') on a Material with at least one correlated
\* object, alphaMode is 'MASK', alphaCutoff is the cutoff that was stored (0.5
\* when none was) and the alpha-test threshold of every correlated object is
\* that cutoff; with alphaMode and alphaCutoff unset before, that is 0.5.
C2_MaskReappliesCutoff ==
    (Called("setAlphaMode", "MASK") /\ ~threw /\ Len(Set) >= 1) =>
        /\ sourceObject.alphaMode = "MASK"
        /\ sourceObject.alphaCutoff = Some(StoredCutoff(pre.sourceObject))
        /\ \A i \in Objs : Set[i].alphaTest = StoredCutoff(pre.sourceObject)

\* C3: alphaCutoff read right after setAlphaMode('MASK') is 0.5 if no cutoff
\* was ever set (in the loaded document or by setAlphaCutoff), else the last
\* cutoff explicitly set.
C3_CutoffAfterMask ==
    Called("setAlphaMode", "MASK") =>
        sourceObject.alphaCutoff =
            Some(IF explicitCutoff = Undefined THEN DefaultAlphaCutoff
                 ELSE explicitCutoff[1])

\* C4: after setAlphaMode('OPAQUE') returns, every correlated object has its
\* transparency flag false and its depth-write flag true.
C4_OpaqueFlags ==
    (Called("setAlphaMode", "OPAQUE") /\ ~threw) =>
        \A i \in Objs : ~Set[i].transparent /\ Set[i].depthWrite

\* C4 witness: OPAQUE was set on two or more objects, all transparent and not
\* depth-writing before, while the document said BLEND.
C4_Witness ==
    /\ Called("setAlphaMode", "OPAQUE") /\ ~threw
    /\ Len(Set) >= 2
    /\ pre.sourceObject.alphaMode = "BLEND"
    /\ \A i \in Objs : /\ pre.set[i].transparent /\ ~pre.set[i].depthWrite
                       /\ ~Set[i].transparent /\ Set[i].depthWrite

\* C5: after setAlphaMode('BLEND') returns, every correlated object has its
\* transparency flag true and its depth-write flag false.
C5_BlendFlags ==
    (Called("setAlphaMode", "BLEND") /\ ~threw) =>
        \A i \in Objs : Set[i].transparent /\ ~Set[i].depthWrite

\* C5 witness: BLEND was set on two or more objects, all opaque and
\* depth-writing before, with a cutoff stored in the document.
C5_Witness ==
    /\ Called("setAlphaMode", "BLEND") /\ ~threw
    /\ Len(Set) >= 2
    /\ pre.sourceObject.alphaCutoff # Undefined
    /\ \A i \in Objs : /\ ~pre.set[i].transparent /\ pre.set[i].depthWrite
                       /\ Set[i].transparent /\ ~Set[i].depthWrite

\* C6: every setter is idempotent: a call that repeats the call before it
\* (same setter, same argument) leaves the source document and every
\* correlated renderer object as the first call left them.
C6_Idempotent ==
    [][(/\ lastCall.op # "none"
        /\ lastCall'.op = lastCall.op
        /\ lastCall'.arg = lastCall.arg
        /\ ~threw /\ ~threw')
       => /\ sourceObject' = sourceObject
          /\ correlatedObjects' = correlatedObjects
          /\ texture' = texture
          /\ threeTextures' = threeTextures]_vars

\* C7: after setTexture(t) with non-null t the renderer texture behind t is
\* tagged linear for the usages Metallic, Normal and Occlusion and sRGB for
\* Base and Emissive, whatever the slot's material set is (null and empty
\* included).
C7_EncodingByUsage ==
    (lastCall.op = "setTexture" /\ lastCall.arg # Null) =>
        threeTextures[sourceTexture(lastCall.arg[1])].encoding =
            IF usage \in {"Metallic", "Normal", "Occlusion"}
            THEN "LinearEncoding" ELSE "sRGBEncoding"

\* C8: setTexture(null) leaves the map property of the slot's usage empty on
\* every correlated material and the slot's texture null, and does not throw.
C8_ClearTexture ==
    Called("setTexture", Null) =>
        /\ ~threw
        /\ texture = Null
        /\ ~materialsNull => \A i \in Objs : Set[i][UsageMap(usage)] = Null

\* C8 witness: setTexture(null) on a slot that was already empty, over two
\* or more correlated materials.
C8_Witness ==
    /\ Called("setTexture", Null) /\ ~threw
    /\ ~materialsNull /\ Len(Set) >= 2
    /\ pre.texture = Null
    /\ \A i \in Objs : pre.set[i][UsageMap(usage)] = Null /\ Set[i][UsageMap(usage)] = Null

\* C9: a call of setTexture writes, on each correlated material, only the map
\* property its usage selects and the needs-recompile flag (set to true), and
\* invokes the update callback exactly once, after the materials and the
\* texture's encoding tag have been written.
C9_SetTextureEffects ==
    lastCall.op = "setTexture" =>
        /\ ~threw
        /\ Len(Set) = Len(pre.set)
        /\ ~materialsNull =>
              \A i \in Objs :
                 /\ Set[i][UsageMap(usage)] =
                       (IF lastCall.arg = Null THEN Null
                        ELSE Some(sourceTexture(lastCall.arg[1])))
                 /\ Set[i].needsUpdate
                 /\ \A f \in (DOMAIN Set[i]) \ {UsageMap(usage), "needsUpdate"} :
                       Set[i][f] = pre.set[i][f]
        /\ materialsNull => Set = pre.set
        /\ Len(onUpdateLog) = 1
        /\ onUpdateLog[1].set = Set
        /\ onUpdateLog[1].threeTextures = threeTextures
        /\ onUpdateLog[1].texture = texture

\* C9 witness: a texture was assigned over two or more materials whose other
\* maps hold another texture, and its encoding tag changed in the call.
C9_Witness ==
    /\ lastCall.op = "setTexture" /\ lastCall.arg # Null
    /\ ~materialsNull /\ Len(Set) >= 2
    /\ \A i \in Objs :
          /\ Set[i][UsageMap(usage)] = lastCall.arg
          /\ \A f \in MapProperties \ {UsageMap(usage)} :
                Set[i][f] # Null /\ Set[i][f] # lastCall.arg
    /\ pre.threeTextures[lastCall.arg[1]].encoding # threeTextures[lastCall.arg[1]].encoding
    /\ Len(onUpdateLog) = 1

\* C10: after setDoubleSided(flag) every correlated object's side is
\* double-sided when flag is true and front-only otherwise, doubleSided read
\* from the source document is flag, and the update callback ran once.
C10_DoubleSided ==
    (lastCall.op = "setDoubleSided" /\ ~threw) =>
        /\ \A i \in Objs :
              Set[i].side = (IF lastCall.arg THEN "DoubleSide" ELSE "FrontSide")
        /\ sourceObject.doubleSided = Some(lastCall.arg)
        /\ Len(onUpdateLog) = 1

StateChanged ==
    \/ sourceObject # pre.sourceObject
    \/ Set # pre.set
    \/ texture # pre.texture
    \/ threeTextures # pre.threeTextures

\* C12: a setter call that returns and has changed the source document or a
\* correlated object has invoked the update callback at least once.
C12_UpdateOnChange ==
    (lastCall.op # "none" /\ ~threw /\ StateChanged) => Len(onUpdateLog) >= 1

\* C13: in one setter call every correlated object the call mutates has
\* received its mutation before the update callback runs for the first time:
\* the first callback sees no object still holding its pre-call value.
C13_FanOutBeforeUpdate ==
    (lastCall.op # "none" /\ ~threw /\ Len(onUpdateLog) >= 1) =>
        \A i \in Objs :
            Set[i] # pre.set[i] => onUpdateLog[1].set[i] # pre.set[i]

C15_DocumentOnlySafe ==
    (lastCall.op # "none" /\ correlatedObjects.null) =>
        ~threw /\ Set = pre.set

\* A Material has been constructed, and the last one was given a null or an
\* undefined correlated set / a set.
HasBuilt == built.version # "none"
BuiltOverNull == HasBuilt /\ built.correlatedGiven.tag \in {"undefined", "null"}
BuiltOverSet == HasBuilt /\ built.correlatedGiven.tag = "set"

\* The registry entry of the Material constructed last.
IsBuiltElement(e) ==
    /\ e.id = built.id
    /\ e.kind = "Material"
    /\ e.sourceObject = MaterialRef

\* C16: constructing a Material with a null or undefined correlated set does
\* not throw; the element is adopted with its id and its source fragment, its
\* correlatedObjects is null, the fragment is recorded as given and the
\* constructor has returned before building (or adopting) any sub-facade.
C16_NullSetConstructs ==
    BuiltOverNull =>
        /\ ~built.threw
        /\ IsBuiltElement(elements[Len(elements)])
        /\ elements[Len(elements)].correlatedObjects = NullSet
        /\ built.correlatedObjects = NullSet
        /\ built.sourceObject = built.given
        /\ ~built.pbrMetallicRoughness
        /\ built.normalTexture = Undefined
        /\ built.occlusionTexture = Undefined
        /\ built.emissiveTexture = Undefined

\* C16 witness: a second Material has been constructed, with undefined for the
\* correlated set, and reads back null.
C16_Witness ==
    /\ HasBuilt
    /\ built.correlatedGiven = UndefinedSet
    /\ built.correlatedObjects = NullSet
    /\ ~built.threw
    /\ built.id > 0
    /\ IsBuiltElement(elements[Len(elements)])

\* C18 as stated: every construction leaves a pbrMetallicRoughness block
\* (an empty one, if the fragment had none) and an emissiveFactor ([0,0,0], if
\* the fragment had none) in the source document, with or without correlated
\* renderer objects.
C18_AlwaysSynthesized ==
    HasBuilt =>
        /\ built.given.pbrMetallicRoughness = Undefined =>
               built.sourceObject.pbrMetallicRoughness = EmptyBlock
        /\ built.given.emissiveFactor = Undefined =>
               built.sourceObject.emissiveFactor = Some(Black)

\* C18 amended: a construction over a correlated set (empty or not) leaves an
\* empty pbrMetallicRoughness block where the fragment had none and
\* emissiveFactor [0,0,0] where it had none, and changes nothing else of the
\* fragment; a construction over null or undefined leaves the fragment as given.
C18_SynthesizedOverSet ==
    /\ BuiltOverSet =>
        built.sourceObject =
            [built.given EXCEPT
                !.pbrMetallicRoughness = IF @ = Undefined THEN EmptyBlock ELSE @,
                !.emissiveFactor = IF @ = Undefined THEN Some(Black) ELSE @]
    /\ BuiltOverNull => built.sourceObject = built.given

\* C18 witness: a fragment with neither block, constructed over two renderer
\* objects, now has both.
C18_Witness ==
    /\ BuiltOverSet
    /\ Len(built.correlatedGiven.set) = 2
    /\ built.given.pbrMetallicRoughness = Undefined
    /\ built.given.emissiveFactor = Undefined
    /\ built.sourceObject.pbrMetallicRoughness = EmptyBlock
    /\ built.sourceObject.emissiveFactor = Some(Black)

\* The last Material was constructed to its end over a set, so its slots exist.
SlotsBuilt == BuiltOverSet /\ ~built.threw
BuiltSet == built.correlatedGiven.set
BuiltObjs == 1 .. Len(BuiltSet)
Slots == 1 .. 3

\* The TextureInfo of slot k; the entry it holds is the slot's entry as the
\* facade sees it.
SlotInfo(k) == <<built.normalTexture, built.occlusionTexture, built.emissiveTexture>>[k][1]
Declared(k) == SlotEntries(built.given)[k] # Undefined
SomeObjectHasMap(k) == \E i \in BuiltObjs : SlotMaps(BuiltSet[i])[k] # Null
Disagree(k) ==
    \E i, j \in BuiltObjs : SlotMaps(BuiltSet[i])[k] # SlotMaps(BuiltSet[j])[k]

\* C19: for each of the three slots of a constructed Material, the slot's
\* entry is index -1 exactly when the fragment declares the slot and no
\* correlated object has the map; when the slot is declared and some object has
\* the map, the declared entry is kept.
C19_ForcedExactlyWhenNoMap ==
    SlotsBuilt =>
        \A k \in Slots :
            /\ (SlotInfo(k).sourceObject = NoTextureEntry)
                   <=> (Declared(k) /\ ~SomeObjectHasMap(k))
            /\ (Declared(k) /\ SomeObjectHasMap(k)) =>
                   SlotInfo(k).sourceObject = SlotEntries(built.given)[k]

\* C20: when the correlated objects of a constructed Material disagree on the
\* map of a slot, the slot's message is logged and the slot's TextureInfo is
\* built from the first object's map; when they agree on every slot, nothing
\* is logged.
C20_DisagreementReported ==
    SlotsBuilt =>
        /\ \A k \in Slots :
               Disagree(k) =>
                   /\ \E n \in 1 .. Len(built.console) : built.console[n] = SlotMessages[k]
                   /\ SlotInfo(k).texture = SlotMaps(BuiltSet[1])[k]
        /\ (\A k \in Slots : ~Disagree(k)) => built.console = << >>

\* No two elements alive have the same id.
IdsDistinct ==
    \A i, j \in 1 .. Len(elements) : elements[i].id = elements[j].id => i = j

\* No step changes the id of an element that is alive.
IdsKept == \A i \in 1 .. Len(elements) : elements'[i].id = elements[i].id

\* C17: the id an element got at construction is its id after every setter of
\* the Material and after Texture.applyNewTextureInfo, and no two elements
\* alive in the session have the same id.
C17_IdStableAndUnique == [](IdsDistinct) /\ [][IdsKept]_vars

\* C17 witness: after setters have run, a Texture facade has been re-pointed by
\* applyNewTextureInfo to the texture another Texture facade is over; both
\* still have the ids they were constructed with, after the Material's and
\* its sub-facades'.
C17_Witness ==
    /\ lastCall.op = "applyNewTextureInfo"
    /\ sourceObject.alphaMode = "MASK"
    /\ LET e == elements[lastCall.arg[1]]
       IN /\ e.sourceObject = Ref("gltfTexture", lastCall.arg[2])
          /\ e.sampler = lastCall.arg[2]
          /\ e.source = lastCall.arg[2]
          /\ e.id = lastCall.arg[1] - 1
          /\ \E j \in TextureElements :
                 /\ j # lastCall.arg[1]
                 /\ elements[j].sourceObject = e.sourceObject
                 /\ elements[j].id # e.id

\* C21: a Material that starts with correlated objects agreeing on emissive,
\* transparent, depthWrite, alphaTest and side has them agreeing after every
\* sequence of setEmissiveFactor, setAlphaCutoff, setAlphaMode and
\* setDoubleSided calls.
C21_FanOutUniform == Uniform(Set)

\* The material with only its first n correlated objects.
FirstObjects(m, n) == [m EXCEPT !.correlatedObjects.set = SubSeq(@, 1, n)]

\* C22: from a Material with agreeing correlated objects, setAlphaMode(mode)
\* does not throw for any mode, and what it leaves in a correlated object does
\* not depend on how many correlated objects the Material has.
C22_TotalDeterministic ==
    Uniform(Set) =>
        \A mode \in AlphaModes :
            /\ ~setAlphaMode(Machine, mode).threw
            /\ \A n \in Objs : \A i \in 1 .. n :
                   FanOutState(setAlphaMode(Machine, mode).correlatedObjects.set[i])
                     = FanOutState(setAlphaMode(FirstObjects(Machine, n), mode)
                                       .correlatedObjects.set[i])

\* The names of the hotspots in a hotspots array.
NamesOf(hs) == {hs[i].name : i \in 1 .. Len(hs)}

ThrewUnchanged ==
    /\ hotspotLast.threw
    /\ hotspots = hotspotLast.pre.hotspots
    /\ hotspotNameSet = hotspotLast.pre.hotspotNameSet

\* C25: UPDATE_HOTSPOT and REMOVE_HOTSPOT of a name that is not in the state
\* throw, ADD_HOTSPOT of a registered name throws, and none of them changes the
\* hotspots array or the registered-name set.
C25_ErrorOutcomes ==
    /\ (hotspotLast.op = "UPDATE_HOTSPOT"
          /\ hotspotLast.arg.name \notin NamesOf(hotspotLast.pre.hotspots))
         => ThrewUnchanged
    /\ (hotspotLast.op = "REMOVE_HOTSPOT"
          /\ hotspotLast.arg \notin NamesOf(hotspotLast.pre.hotspots))
         => ThrewUnchanged
    /\ (hotspotLast.op = "ADD_HOTSPOT"
          /\ hotspotLast.arg.name \in hotspotLast.pre.hotspotNameSet)
         => ThrewUnchanged

\* C25 witness: an ADD_HOTSPOT of a name already in a state of two hotspots
\* has thrown.
C25_Witness ==
    /\ hotspotLast.op = "ADD_HOTSPOT"
    /\ hotspotLast.arg.name \in NamesOf(hotspotLast.pre.hotspots)
    /\ Len(hotspots) = 2
    /\ ThrewUnchanged

\* C26: after every sequence of add, click-add, update, remove, clear and set
\* (lists of distinct names), thrown ones included, the registered names are
\* exactly the names of the hotspots in the state, and those are distinct.
C26_RegistryMatchesState ==
    /\ hotspotNameSet = NamesOf(hotspots)
    /\ \A i, j \in 1 .. Len(hotspots) : hotspots[i].name = hotspots[j].name => i = j

\* C26 witness: one of two hotspots has been removed; the other is still
\* registered.
C26_Witness ==
    /\ hotspotLast.op = "REMOVE_HOTSPOT"
    /\ ~hotspotLast.threw
    /\ Len(hotspotLast.pre.hotspots) = 2
    /\ Len(hotspots) = 1
    /\ hotspotNameSet = {hotspots[1].name}

\* The call described by editsLast' was given a material index out of bounds.
OutOfBoundsCall ==
    /\ editsLast'.op # "none"
    /\ editsLast'.id < 0 \/ editsLast'.id >= Len(edits.materials)

\* C23: each material-edit dispatch function (the seven factor and flag
\* functions, the five set-texture and the five add-texture functions) called
\* with a material index < 0 or >= materials.length throws and dispatches
\* nothing: materials and texturesById are unchanged.
C23_OutOfBoundsThrows ==
    [][OutOfBoundsCall =>
          /\ editsLast'.threw
          /\ ~editsLast'.dispatched
          /\ edits' = edits]_vars

\* C23 witness: an add-texture function has thrown on index -1 with one
\* material in the edits, after a texture had been added in bounds.
C23_Witness ==
    /\ editsLast.op = "dispatchAddNormalTexture"
    /\ editsLast.id = -1
    /\ editsLast.threw
    /\ Len(edits.materials) = 1
    /\ Cardinality(edits.texturesById) = 2

\* Every texture id a material holds is a key of texturesById.
ReferentialIntegrity ==
    \A i \in 1 .. Len(edits.materials) : \A f \in TextureFields :
        edits.materials[i][f] # Undefined => has(edits.texturesById, edits.materials[i][f][1])

\* A set-texture call with an id that texturesById does not have.
SetUnknownTexture ==
    /\ editsLast'.op \in {d.fn : d \in SetTextureDispatches}
    /\ editsLast'.arg # Undefined
    /\ ~has(edits.texturesById, editsLast'.arg[1])

\* An add-texture call that returned.
AddedTexture ==
    /\ editsLast'.op \in {d.fn : d \in AddTextureDispatches}
    /\ ~editsLast'.threw

\* C27: every texture id held by a material stays a key of texturesById under
\* set-texture and add-texture dispatches; set-texture with an unknown id throws
\* and changes nothing; add-texture puts the new entry into texturesById and
\* the reference to it into the material in one transition.
C27_TextureIntegrity ==
    /\ [](ReferentialIntegrity)
    /\ [][SetUnknownTexture => (editsLast'.threw /\ edits' = edits)]_vars
    /\ [][AddedTexture =>
            /\ ~has(edits.texturesById, editsLast'.generated)
            /\ has(edits'.texturesById, editsLast'.generated)
            /\ edits'.materials[editsLast'.id + 1][editsLast'.field]
                 = Some(editsLast'.generated)]_vars

\* C27 witness: a texture has been added as the normal texture of the material
\* and then also set as its occlusion texture.
C27_Witness ==
    /\ editsLast.op = "dispatchOcclusionTexture"
    /\ ~editsLast.threw
    /\ Len(edits.materials) = 1
    /\ edits.materials[1].normalTextureId = Some(1)
    /\ edits.materials[1].occlusionTextureId = Some(1)
    /\ has(edits.texturesById, 1)

\* C28: once every updateGltf run that was started has completed, the edits
\* the gltf model reflects are the edits of the store.
C28_LatestEditsApplied ==
    runs = << >> => gltfApplied = Some(edits)

\* C29: waitForState keeps what did not change and clears what changed: with
\* envChanged false and an environment image in the current config the
\* dispatched config carries that image, whatever posterChanged is; with
\* posterChanged false and a poster in the current config the dispatched
\* config carries that poster; a resource flagged as changed is undefined in
\* the dispatched config.
StateDispatched == stateLast.called /\ ~stateLast.threw

C29_UnchangedKept ==
    StateDispatched =>
        /\ (~stateLast.envChanged /\ stateLast.before.environmentImage # Undefined)
               => stateLast.dispatched.environmentImage = stateLast.before.environmentImage
        /\ (~stateLast.posterChanged /\ stateLast.before.poster # Undefined)
               => stateLast.dispatched.poster = stateLast.before.poster
        /\ stateLast.envChanged => stateLast.dispatched.environmentImage = Undefined
        /\ stateLast.posterChanged => stateLast.dispatched.poster = Undefined

\* C30: the polling loop never stops: the loop is always at a position it
\* continues from, every settled iteration (succeeded, or failed in the update
\* fetch, its JSON parsing or a follow-up handler) is followed by the start of
\* a new one, and within an iteration the follow-ups are started in the order
\* model, state, environment, poster.
LoopPositions == {"idle", "fetch", "model", "state", "env", "poster", "settled"}

Rank(name) ==
    CASE name = "model" -> 1
      [] name = "state" -> 2
      [] name = "env" -> 3
      [] name = "poster" -> 4

OrderKept ==
    \A i, j \in 1 .. Len(started) : i < j => Rank(started[i]) < Rank(started[j])

C30_LoopNeverStops ==
    /\ [](mobilePc \in LoopPositions /\ OrderKept)
    /\ (mobilePc = "settled") ~> (mobilePc = "fetch")

\* A new iteration was started after one whose waitForState threw.
C30_Witness ==
    /\ mobilePc = "fetch"
    /\ stateLast.called
    /\ stateLast.threw
    /\ started = <<"model", "state">>

====
